---- MODULE Spec2Model ----
(***************************************************************************)
(* Streaming aggregation of World Ocean Database casts.                    *)
(*                                                                         *)
(* Two drivers are modelled: WODReader.read_raw_data (read_wod_2022.py)    *)
(* and read_raw_data of functions/read.py (the one main.py runs).  Both    *)
(* read casts one at a time, append each cast to the column accumulator    *)
(* data_lists, test the accumulator's size after every append, and hand    *)
(* the accumulator to create_dataset when the threshold is reached and     *)
(* once more when the stream is exhausted.                                 *)
(*                                                                         *)
(* Values.  Every number of a cast is an integer >= 0; np.nan is NaN.      *)
(* A date string is a sequence of digits.  GMT_time is counted in          *)
(* quarters of an hour, so that the float arithmetic of get_date is exact. *)
(* The formatted date string is the tuple of its six numeric fields; in    *)
(* the datestr column np.nan is written NaNStr.                            *)
(***************************************************************************)
EXTENDS Integers, Sequences, FiniteSets, TLC

(***************************************************************************)
(* Bounds of the model.                                                    *)
(***************************************************************************)
MaxCasts == 2
MaxObs == 2

NaN == 0 - 1
NaNStr == <<NaN>>

(***************************************************************************)
(* initialize_variables: the attribute schema and the empty accumulator.   *)
(***************************************************************************)
string_attrs ==
  << <<"orig_profile_ID", "wod_unique_cast">>,
     <<"orig_cruise_id", "originators_cruise_identifier">>,
     <<"access_no", "Access_no">>,
     <<"platform", "Platform">>,
     <<"station_no", "Orig_Stat_Num">>,
     <<"instrument_type", "dataset">>,
     <<"lat", "lat">>,
     <<"lon", "lon">>,
     <<"bottom_depth", "Bottom_Depth">>,
     <<"datestr", "">>,
     <<"timestamp", "">>,
     <<"orig_filename", "">>,
     <<"shallowest_depth", "">>,
     <<"deepest_depth", "">>,
     <<"parent_index", "">> >>

obs_attrs ==
  << <<"depth", "z">>,
     <<"press", "Pressure">>,
     <<"temp", "Temperature">>,
     <<"psal", "Salinity">>,
     <<"depth_flag", "z_WODflag">>,
     <<"temp_flag", "Temperature_WODflag">>,
     <<"psal_flag", "Salinity_WODflag">> >>

StringKeys == {string_attrs[k][1] : k \in DOMAIN string_attrs}
ObsKeys == {obs_attrs[k][1] : k \in DOMAIN obs_attrs}
Keys == StringKeys \cup ObsKeys

initialize_variables == [data_lists |-> [attr \in Keys |-> <<>>], i |-> 0]

\* The columns create_dataset lays along the "profile" dimension and along
\* the "obs" dimension.
ProfileKeys == StringKeys \ {"parent_index"}
ObsDimKeys == ObsKeys \cup {"parent_index"}

(***************************************************************************)
(* A cast: one input file, as xarray presents it.  has is the set of       *)
(* variable names for which `name in ds` is true; z is the depth series;   *)
(* ser holds the other series; sca the scalar metadata; date the digits    *)
(* of str(ds["date"].values); gmt the GMT_time in quarters of an hour;     *)
(* ofn tells whether the variable orig_filename, when the cast has one,    *)
(* is 0-dimensional ("unsized"), an empty array or a filled one.           *)
(***************************************************************************)
OtherSeries ==
  {"Pressure", "z_WODflag", "Salinity", "Salinity_WODflag",
   "Temperature", "Temperature_WODflag"}
ScalarSources == {string_attrs[k][2] : k \in DOMAIN string_attrs} \ {""}
FieldNames ==
  {"z", "orig_filename", "date", "GMT_time"} \cup OtherSeries \cup ScalarSources

SeriesBase(name) ==
  CASE name = "Pressure" -> 10
    [] name = "Temperature" -> 20
    [] name = "Salinity" -> 30
    [] name = "z_WODflag" -> 40
    [] name = "Temperature_WODflag" -> 50
    [] name = "Salinity_WODflag" -> 60

SeriesOf(name, n) == [k \in 1..n |-> SeriesBase(name) + k]

ScalarOf(name) == CHOOSE k \in DOMAIN string_attrs : string_attrs[k][2] = name

GoodDate == <<2, 0, 2, 0, 0, 2, 2, 9>>
BadDate == <<2, 0, 2, 1, 0, 2, 2, 9>>
ShortDate == <<2, 0, 2, 0, 0, 2>>
NoonHalf == 12 * 4 + 2

\* A cast with the variables `has`, depth series z, every other series of
\* length n.
MkCast(has, z, n) ==
  [has |-> has,
   z |-> IF "z" \in has THEN z ELSE <<>>,
   ser |-> [s \in OtherSeries |-> IF s \in has THEN SeriesOf(s, n) ELSE <<>>],
   sca |-> [s \in ScalarSources |-> IF s \in has THEN ScalarOf(s) ELSE NaN],
   date |-> IF "date" \in has THEN GoodDate ELSE <<>>,
   gmt |-> IF "GMT_time" \in has THEN NoonHalf ELSE 0,
   ofn |-> IF "orig_filename" \in has THEN "filled" ELSE "absent"]

DepthVals == {0, 1}
DepthSeqs == UNION {[1..n -> DepthVals] : n \in 0..MaxObs}

\* a cast long enough to reach the threshold of is_variable_too_big alone
DeepSeries == <<1, 2, 3, 4>>

\* every depth series over DepthVals, two series of distinct non-zero
\* depths and the deep cast, all variables present
CastsDepth ==
  {MkCast(FieldNames, z, Len(z)) :
     z \in DepthSeqs \cup {<<1, 2>>, <<2, 1>>, DeepSeries}}

\* z and Pressure present or not, with and without the date
CastsPressure ==
  {MkCast(FieldNames \ drop, <<1>>, n) :
     drop \in {{"Pressure"}, {"z", "Pressure"}, {"Pressure", "date"}},
     n \in {1}}
  \cup {MkCast(FieldNames \ drop, <<>>, n) :
          drop \in {{"z"}, {"z", "date"}}, n \in 0..MaxObs}

\* the optional series of a cast of two observations
CastsOptional ==
  {MkCast(FieldNames \ drop, <<1, 2>>, 2) :
     drop \in (SUBSET {"z_WODflag", "Salinity", "Salinity_WODflag"})
              \cup (SUBSET {"Temperature", "Temperature_WODflag"})}

\* the metadata: dates that are absent or do not decode, orig_filename in
\* its three shapes, scalar metadata absent
CastsMeta ==
  {MkCast(FieldNames \ drop, <<1>>, 1) :
     drop \in {{"date"}, {"GMT_time"}, {"orig_filename"}, ScalarSources}}
  \cup {[MkCast(FieldNames, <<1>>, 1) EXCEPT !.date = d] : d \in {BadDate, ShortDate}}
  \cup {[MkCast(FieldNames, <<1>>, 1) EXCEPT !.gmt = 24 * 4]}
  \cup {[MkCast(FieldNames, <<1>>, 1) EXCEPT !.ofn = o] : o \in {"unsized", "empty"}}

\* series whose length differs from the depth series' length
CastsRagged ==
  {[MkCast(FieldNames, <<1>>, 1) EXCEPT !.ser[s] = SeriesOf(s, 2)] :
     s \in {"Pressure", "Salinity", "Temperature_WODflag"}}

Casts == CastsDepth \cup CastsPressure \cup CastsOptional \cup CastsMeta \cup CastsRagged

\* Every series the cast carries has the length of its depth series.
Uniform(c) ==
  "z" \in c.has =>
    \A s \in OtherSeries : s \in c.has => Len(c.ser[s]) = Len(c.z)

(***************************************************************************)
(* Python and numpy primitives the drivers use.                            *)
(***************************************************************************)
\* the truth value of a string literal: "z" and X is X
StrTruthy(str) == str # ""

\* [np.nan] * n for an integer n
NanList(n) == [k \in 1..n |-> NaN]

\* [np.nan] * a taken as a list of one nan
Mut_NanTimesArray(a) == <<NaN>>

\* [np.nan] * a for a numpy array a: the list is broadcast against the
\* array and nan * x is nan, so the result has one nan per element of a
NanTimesArray(a) == [k \in 1..Len(a) |-> NaN]

\* a[a != 0]
NonZero(a) == SelectSeq(a, LAMBDA x : x # 0)

Elements(a) == {a[k] : k \in DOMAIN a}
\* min(a) and max(a) raise ValueError on an empty argument: the callers
\* test Len(a) = 0 first
Min(a) == CHOOSE x \in Elements(a) : \A y \in Elements(a) : x <= y
Max(a) == CHOOSE x \in Elements(a) : \A y \in Elements(a) : x >= y

Extend(dl, key, a) == [dl EXCEPT ![key] = @ \o a]
AppendTo(dl, key, v) == [dl EXCEPT ![key] = Append(@, v)]

\* The result of a stretch of a driver's loop body: the accumulator as the
\* stretch leaves it, how the stretch ended ("ok", "skip" for continue,
\* "raise" for an exception that leaves read_raw_data), and depth_list.
Ok(dl, depth_list) == [dl |-> dl, st |-> "ok", depth_list |-> depth_list]
\* a continue that first leaves a sentinel observation behind
Mut_Skip(dl) ==
  [dl |-> [dl EXCEPT !["depth"] = Append(@, NaN)], st |-> "skip", depth_list |-> <<>>]
Skip(dl) == [dl |-> dl, st |-> "skip", depth_list |-> <<>>]
Raise(dl) == [dl |-> dl, st |-> "raise", depth_list |-> <<>>]
\* the next stretch runs when the one before ended "ok"; v is the value of r
Then(r, Step(_)) ==
  CHOOSE out \in {IF v.st = "ok" THEN Step(v) ELSE v : v \in {r}} : TRUE

(***************************************************************************)
(* get_date and the datetime calls that follow it.                         *)
(***************************************************************************)
RECURSIVE ToInt(_)
\* int(s) for a string of digits; the caller tests for the empty string,
\* on which int raises ValueError
ToInt(digits) ==
  IF digits = <<>> THEN 0
  ELSE 10 * ToInt(SubSeq(digits, 1, Len(digits) - 1)) + digits[Len(digits)]

Slice(str, from, to) ==
  SubSeq(str, from, IF to < Len(str) THEN to ELSE Len(str))

\* get_date: the five fields, or raised when an int() gets an empty string
get_date(c) ==
  LET complete_date == c.date
      gmt_time == c.gmt
      y == Slice(complete_date, 1, 4)
      m == Slice(complete_date, 5, 6)
      d == Slice(complete_date, 7, Len(complete_date))
  IN  IF y = <<>> \/ m = <<>> \/ d = <<>>
      THEN [raised |-> TRUE, year |-> 0, month |-> 0, day |-> 0, hour |-> 0, minute |-> 0]
      ELSE [raised |-> FALSE,
            year |-> ToInt(y), month |-> ToInt(m), day |-> ToInt(d),
            hour |-> gmt_time \div 4,
            minute |-> ((gmt_time % 4) * 60) \div 4]

IsLeap(y) == (y % 4 = 0 /\ y % 100 # 0) \/ y % 400 = 0
DaysInMonth(y, m) ==
  IF m = 2 THEN (IF IsLeap(y) THEN 29 ELSE 28)
  ELSE IF m \in {4, 6, 9, 11} THEN 30 ELSE 31

\* datetime(year, month, day, hour, minute) raises ValueError unless
DatetimeValid(t) ==
  /\ t.year \in 1..9999
  /\ t.month \in 1..12
  /\ t.day \in 1..DaysInMonth(t.year, t.month)
  /\ t.hour \in 0..23
  /\ t.minute \in 0..59

\* days from 1970-01-01 to the civil date
DaysFromCivil(y0, m, d) ==
  LET y == IF m <= 2 THEN y0 - 1 ELSE y0
      era == y \div 400
      yoe == y - era * 400
      mp == (m + 9) % 12
      doy == (153 * mp + 2) \div 5 + d - 1
      doe == yoe * 365 + yoe \div 4 - yoe \div 100 + doy
  IN  era * 146097 + doe - 719468

\* datetime.timestamp(), the process running in UTC
Timestamp(t) ==
  DaysFromCivil(t.year, t.month, t.day) * 86400 + t.hour * 3600 + t.minute * 60

\* strftime("%Y/%m/%d %H:%M:%S"): the six fields of the string
Strftime(t) == <<t.year, t.month, t.day, t.hour, t.minute, 0>>

(***************************************************************************)
(* WODReader.read_raw_data: the body of the loop, one cast.                *)
(***************************************************************************)
\* lines 130-150: depth and pressure, or continue
ReadObservational(dl, c) ==
  IF StrTruthy("z") /\ "Pressure" \in c.has
  THEN IF "z" \notin c.has
       THEN Raise(dl)   \* ds["z"]: KeyError
       ELSE Ok(Extend(Extend(dl, "depth", c.z), "press", c.ser["Pressure"]), c.z)
  ELSE IF "z" \in c.has /\ "Pressure" \notin c.has
  THEN Ok(Extend(Extend(dl, "depth", c.z), "press", NanList(Len(c.z))), c.z)
  ELSE IF "Pressure" \in c.has /\ "z" \notin c.has
  THEN LET press_list == c.ser["Pressure"]
           depth_list == NanTimesArray(press_list)
       IN  Ok(Extend(Extend(dl, "press", press_list), "depth", depth_list), depth_list)
  ELSE Skip(dl)

\* lines 152-155
ReadDepthFlag(r, c) ==
  IF "z_WODflag" \in c.has
  THEN Ok(Extend(r.dl, "depth_flag", c.ser["z_WODflag"]), r.depth_list)
  ELSE Ok(Extend(r.dl, "depth_flag", NanTimesArray(r.depth_list)), r.depth_list)

\* the minimum taken over the whole series, zeros included
Mut_ShallowestDepth(depth_list) == Min(depth_list)

\* lines 157-160: the value appended to shallowest_depth
ShallowestDepth(depth_list) ==
  IF Len(depth_list) > 1 THEN Min(NonZero(depth_list)) ELSE Min(depth_list)

\* [i + 1] * len(depth_list): the counter incremented before its use
Mut_ParentIndexEntries(i0, depth_list) == [k \in 1..Len(depth_list) |-> i0 + 1]

\* line 162: [i] * len(depth_list)
ParentIndexEntries(i0, depth_list) == [k \in 1..Len(depth_list) |-> i0]

\* lines 157-162; min of an empty sequence raises ValueError
ReadDepthRange(r, i0) ==
  LET depth_list == r.depth_list
      arg == IF Len(depth_list) > 1 THEN NonZero(depth_list) ELSE depth_list
  IN  IF arg = <<>>
      THEN Raise(r.dl)
      ELSE Ok(Extend(AppendTo(AppendTo(r.dl, "shallowest_depth",
                                       ShallowestDepth(depth_list)),
                              "deepest_depth", Max(depth_list)),
                     "parent_index", ParentIndexEntries(i0, depth_list)),
              depth_list)

\* an absent Salinity filled in psal alone
Mut_ReadSalinity(r, c) ==
  IF "Salinity" \in c.has
  THEN LET psal_list == c.ser["Salinity"]
           d1 == Extend(r.dl, "psal", psal_list)
       IN  IF "Salinity_WODflag" \in c.has
           THEN Ok(Extend(d1, "psal_flag", c.ser["Salinity_WODflag"]), r.depth_list)
           ELSE Ok(Extend(d1, "psal_flag", NanList(Len(psal_list))), r.depth_list)
  ELSE Ok(Extend(r.dl, "psal", NanList(Len(r.depth_list))), r.depth_list)

\* lines 164-174
ReadSalinity(r, c) ==
  IF "Salinity" \in c.has
  THEN LET psal_list == c.ser["Salinity"]
           d1 == Extend(r.dl, "psal", psal_list)
       IN  IF "Salinity_WODflag" \in c.has
           THEN Ok(Extend(d1, "psal_flag", c.ser["Salinity_WODflag"]), r.depth_list)
           ELSE Ok(Extend(d1, "psal_flag", NanList(Len(psal_list))), r.depth_list)
  ELSE LET psal_list == NanList(Len(r.depth_list))
       IN  Ok(Extend(Extend(r.dl, "psal", psal_list), "psal_flag", psal_list),
              r.depth_list)

\* lines 176-186
ReadTemperature(r, c) ==
  IF "Temperature" \in c.has
  THEN LET temp_list == c.ser["Temperature"]
           d1 == Extend(r.dl, "temp", temp_list)
       IN  IF "Temperature_WODflag" \in c.has
           THEN Ok(Extend(d1, "temp_flag", c.ser["Temperature_WODflag"]), r.depth_list)
           ELSE Ok(Extend(d1, "temp_flag", NanTimesArray(temp_list)), r.depth_list)
  ELSE LET temp_list == NanList(Len(r.depth_list))
       IN  Ok(Extend(Extend(r.dl, "temp", temp_list), "temp_flag", temp_list),
              r.depth_list)

\* lines 189-192; len() of a 0-dimensional variable raises TypeError
ReadOrigFilename(r, c, file) ==
  IF "orig_filename" \in c.has
  THEN IF c.ofn = "unsized"
       THEN Raise(r.dl)
       ELSE IF c.ofn = "filled"
            THEN Ok(AppendTo(r.dl, "orig_filename", file), r.depth_list)
            ELSE Ok(AppendTo(r.dl, "orig_filename", NaN), r.depth_list)
  ELSE Ok(AppendTo(r.dl, "orig_filename", NaN), r.depth_list)

\* a cast without date or GMT_time dropped by continue
Mut_ReadDate(r, c) ==
  IF "date" \in c.has /\ "GMT_time" \in c.has
  THEN LET t == get_date(c)
       IN  IF t.raised \/ ~DatetimeValid(t)
           THEN Ok(AppendTo(AppendTo(r.dl, "datestr", NaNStr), "timestamp", NaN),
                   r.depth_list)
           ELSE Ok(AppendTo(AppendTo(r.dl, "timestamp", Timestamp(t)),
                            "datestr", Strftime(t)),
                   r.depth_list)
  ELSE Skip(r.dl)

\* lines 194-205
ReadDate(r, c) ==
  IF "date" \in c.has /\ "GMT_time" \in c.has
  THEN LET t == get_date(c)
       IN  IF t.raised \/ ~DatetimeValid(t)
           THEN Ok(AppendTo(AppendTo(r.dl, "datestr", NaNStr), "timestamp", NaN),
                   r.depth_list)
           ELSE Ok(AppendTo(AppendTo(r.dl, "timestamp", Timestamp(t)),
                            "datestr", Strftime(t)),
                   r.depth_list)
  ELSE Ok(AppendTo(AppendTo(r.dl, "datestr", NaNStr), "timestamp", NaN), r.depth_list)

\* lines 207-212: one value or nan to each column with a source name
RECURSIVE StringAttrsFrom(_, _, _)
StringAttrsFrom(dl, c, k) ==
  IF k > Len(string_attrs) THEN dl
  ELSE LET key == string_attrs[k][1]
           value == string_attrs[k][2]
       IN  IF value # ""
           THEN StringAttrsFrom(
                  AppendTo(dl, key, IF value \in c.has THEN c.sca[value] ELSE NaN),
                  c, k + 1)
           ELSE StringAttrsFrom(dl, c, k + 1)

ReadStringAttrs(r, c) == Ok(StringAttrsFrom(r.dl, c, 1), r.depth_list)

\* lines 129-212 for the cast c read from `file` with the counter at i0
WODReader_body(dl, i0, c, file) ==
  LET r1 == ReadObservational(dl, c)
      r2 == Then(r1, LAMBDA r : ReadDepthFlag(r, c))
      r3 == Then(r2, LAMBDA r : ReadDepthRange(r, i0))
      r4 == Then(r3, LAMBDA r : ReadSalinity(r, c))
      r5 == Then(r4, LAMBDA r : ReadTemperature(r, c))
      r6 == Then(r5, LAMBDA r : ReadOrigFilename(r, c, file))
      r7 == Then(r6, LAMBDA r : ReadDate(r, c))
  IN  Then(r7, LAMBDA r : ReadStringAttrs(r, c))

(***************************************************************************)
(* is_variable_too_big.  sys.getsizeof of a list is a header plus a fixed  *)
(* number of bytes per slot; the model counts ItemBytes per element, a     *)
(* scale at which the accumulators of the model reach the threshold: 45    *)
(* elements over the 22 columns make 150 MB, so two casts of one           *)
(* observation stay under it and the deep cast reaches it alone.           *)
(* total_sum / (1024 * 1024) >= 150 is an exact comparison of floats, and  *)
(* is written without the division.                                        *)
(***************************************************************************)
EmptyListBytes == 56
ItemBytes == 35 * 100000

\* a size that does not grow with the list
Mut_getsizeof(list) == EmptyListBytes

getsizeof(list) == EmptyListBytes + ItemBytes * Len(list)

\* the keys of data_lists in the order the dict holds them (line 111)
KeyOrder ==
  [k \in 1..(Len(string_attrs) + Len(obs_attrs)) |->
     IF k <= Len(string_attrs) THEN string_attrs[k][1]
     ELSE obs_attrs[k - Len(string_attrs)][1]]

\* lines 47-49: the loop over the keys, from the k-th key on
RECURSIVE SumOver(_, _)
SumOver(k, dl) ==
  IF k > Len(KeyOrder) THEN 0
  ELSE getsizeof(dl[KeyOrder[k]]) + SumOver(k + 1, dl)

TotalSum(dl) == SumOver(1, dl)

\* lines 50-55: size_mb = total_sum / (1024 * 1024); size_mb >= 150
SizeVerdict(sum) == sum >= 150 * (1024 * 1024)

is_variable_too_big(dl) == SizeVerdict(TotalSum(dl))

(***************************************************************************)
(* functions/read.py, read_raw_data: the body of the loop, one cast.       *)
(* "skip" is either of its two continue statements.                        *)
(***************************************************************************)
\* lines 66-77
F_ReadDepthRange(dl, i0, c) ==
  IF "z" \in c.has
  THEN LET arg == IF Len(c.z) > 1 THEN NonZero(c.z) ELSE c.z
       IN  IF arg = <<>>
           THEN Raise(dl)
           ELSE Ok(Extend(AppendTo(AppendTo(dl, "shallowest_depth", Min(arg)),
                                   "deepest_depth", Max(c.z)),
                          "parent_index", [k \in 1..Len(c.z) |-> i0]),
                   c.z)
  ELSE IF "Pressure" \in c.has
  THEN LET n == Len(c.ser["Pressure"])
       IN  Ok(Extend(Extend(dl, "depth", NanList(n)),
                     "parent_index", [k \in 1..n |-> i0]),
              <<>>)
  ELSE Skip(dl)

\* lines 79-85: no handler around get_date and datetime
F_ReadDate(r, c) ==
  IF "date" \in c.has /\ "GMT_time" \in c.has
  THEN LET t == get_date(c)
       IN  IF t.raised \/ ~DatetimeValid(t)
           THEN Raise(r.dl)
           ELSE Ok(AppendTo(AppendTo(r.dl, "timestamp", Timestamp(t)),
                            "datestr", Strftime(t)),
                   r.depth_list)
  ELSE Skip(r.dl)

\* lines 87-92: ds[value] raises KeyError for an absent variable
F_ReadStringAttrs(r, c) == Ok(StringAttrsFrom(r.dl, c, 1), r.depth_list)

\* ds[value].values of an observation variable
SeriesValues(c, value) == IF value = "z" THEN c.z ELSE c.ser[value]

\* lines 93-98: the handler of the KeyError evaluates ds['z'] itself
RECURSIVE F_ObsAttrsFrom(_, _, _)
F_ObsAttrsFrom(r, c, k) ==
  IF k > Len(obs_attrs) THEN r
  ELSE LET key == obs_attrs[k][1]
           value == obs_attrs[k][2]
       IN  IF value # ""
           THEN IF value \in c.has
                THEN F_ObsAttrsFrom(
                       Ok(Extend(r.dl, key, SeriesValues(c, value)), r.depth_list),
                       c, k + 1)
                ELSE IF "z" \in c.has
                     THEN F_ObsAttrsFrom(
                            Ok(Extend(r.dl, key, NanList(Len(c.z))), r.depth_list),
                            c, k + 1)
                     ELSE Raise(r.dl)
           ELSE F_ObsAttrsFrom(r, c, k + 1)

\* line 100
F_ReadOrigFilename(r, filename) ==
  Ok(AppendTo(r.dl, "orig_filename", filename), r.depth_list)

\* lines 66-100 for the cast c of file `filename` with the counter at i0
F_body(dl, i0, c, filename) ==
  LET r1 == F_ReadDepthRange(dl, i0, c)
      r2 == Then(r1, LAMBDA r : F_ReadDate(r, c))
      r3 == Then(r2, LAMBDA r : F_ReadStringAttrs(r, c))
      r4 == Then(r3, LAMBDA r : F_ObsAttrsFrom(r, c, 1))
  IN  Then(r4, LAMBDA r : F_ReadOrigFilename(r, filename))

\* functions/read.py, is_variable_too_big: the same sum against 500 MB, at
\* a scale of F_ItemBytes per element (45 elements make 500 MB)
F_ItemBytes == 117 * 100000

F_getsizeof(list) == EmptyListBytes + F_ItemBytes * Len(list)

RECURSIVE F_SumOver(_, _)
F_SumOver(S, dl) ==
  IF S = {} THEN 0
  ELSE LET key == CHOOSE k \in S : TRUE
       IN  F_getsizeof(dl[key]) + F_SumOver(S \ {key}, dl)

F_is_variable_too_big(dl) == F_SumOver(DOMAIN dl, dl) >= 500 * (1024 * 1024)

(***************************************************************************)
(* create_dataset.  xarray.Dataset raises ValueError when two variables    *)
(* give one dimension different sizes; writing the file can fail for any   *)
(* accumulator.                                                            *)
(***************************************************************************)
Lengths(dl, keys) == {Len(dl[k]) : k \in keys}

Conforming(dl) ==
  /\ Cardinality(Lengths(dl, ProfileKeys)) = 1
  /\ Cardinality(Lengths(dl, ObsDimKeys)) = 1

\* the outcomes create_dataset can have on dl: TRUE for returned
create_dataset(dl) == IF Conforming(dl) THEN {TRUE, FALSE} ELSE {FALSE}

(***************************************************************************)
(* State.                                                                  *)
(*   impl         which program runs: "WODReader" (read_wod_2022.py) or    *)
(*                "functions" (main.py, functions/read.py)                 *)
(*   pc           "loop" while read_raw_data iterates; "done" once it has  *)
(*                returned; "open_failed", "cast_raised", "write_failed"   *)
(*                once an exception has left it                            *)
(*   data_lists, i, file_counter   the locals of read_raw_data             *)
(*   consumed     the casts read so far, in order (history)                *)
(*   calls        the create_dataset calls so far, in order: the           *)
(*                accumulator and file_counter handed over, whether the    *)
(*                call is the one after the loop, whether it returned      *)
(*   total_sum, too_big   total_sum and the value returned, when           *)
(*                is_variable_too_big is run alone ("size_check",          *)
(*                "size_done" in pc)                                       *)
(***************************************************************************)
VARIABLES impl, pc, data_lists, i, file_counter, consumed, calls,
          total_sum, too_big

vars == <<impl, pc, data_lists, i, file_counter, consumed, calls,
          total_sum, too_big>>

\* the local and the return value of is_variable_too_big; the drivers use
\* the verdict where they call it and keep neither
size_vars == <<total_sum, too_big>>

\* WODReader.run / read_WOD: file_counter = 0, then read_raw_data begins
Init ==
  /\ impl \in {"WODReader", "functions"}
  /\ pc = "loop"
  /\ data_lists = initialize_variables.data_lists
  /\ i = initialize_variables.i
  /\ file_counter = 0
  /\ consumed = <<>>
  /\ calls = <<>>
  /\ total_sum = 0
  /\ too_big = FALSE

\* the name of the next file of the listing
NextFile == Len(consumed) + 1

Looping(program) ==
  /\ impl = program
  /\ pc = "loop"
  /\ Len(consumed) < MaxCasts

Call(dl, final, ok) ==
  [data |-> dl, file_counter |-> file_counter, final |-> final, ok |-> ok]

(***************************************************************************)
(* WODReader.read_raw_data, one iteration of the loop per step.            *)
(***************************************************************************)
\* line 127: xr.open_dataset raises
W_OpenFails ==
  /\ Looping("WODReader")
  /\ pc' = "open_failed"
  /\ UNCHANGED <<impl, data_lists, i, file_counter, consumed, calls>>
  /\ UNCHANGED size_vars

\* line 150: continue
W_Skip(c) ==
  /\ Looping("WODReader")
  /\ LET r == WODReader_body(data_lists, i, c, NextFile)
     IN  /\ r.st = "skip"
         /\ data_lists' = r.dl
  /\ consumed' = Append(consumed, c)
  /\ UNCHANGED <<impl, pc, i, file_counter, calls>>
  /\ UNCHANGED size_vars

\* an exception leaves the body, and read_raw_data with it
W_Raise(c) ==
  /\ Looping("WODReader")
  /\ LET r == WODReader_body(data_lists, i, c, NextFile)
     IN  /\ r.st = "raise"
         /\ data_lists' = r.dl
  /\ consumed' = Append(consumed, c)
  /\ pc' = "cast_raised"
  /\ UNCHANGED <<impl, i, file_counter, calls>>
  /\ UNCHANGED size_vars

\* lines 129-216: the cast is appended and the accumulator is not too big
W_Append(c) ==
  /\ Looping("WODReader")
  /\ LET r == WODReader_body(data_lists, i, c, NextFile)
     IN  /\ r.st = "ok"
         /\ ~is_variable_too_big(r.dl)
         /\ data_lists' = r.dl
  /\ i' = i + 1
  /\ consumed' = Append(consumed, c)
  /\ UNCHANGED <<impl, pc, file_counter, calls>>
  /\ UNCHANGED size_vars

\* a flush that does not start a new accumulator
Mut_W_Flush(c) ==
  /\ Looping("WODReader")
  /\ LET r == WODReader_body(data_lists, i, c, NextFile)
     IN  /\ r.st = "ok"
         /\ is_variable_too_big(r.dl)
         /\ TRUE \in create_dataset(r.dl)
         /\ calls' = Append(calls, Call(r.dl, FALSE, TRUE))
         /\ data_lists' = r.dl
  /\ i' = i + 1
  /\ file_counter' = file_counter + 1
  /\ consumed' = Append(consumed, c)
  /\ UNCHANGED <<impl, pc>>
  /\ UNCHANGED size_vars

\* a flush that starts a new accumulator and keeps counting profiles
Mut_W_FlushKeepsIndex(c) ==
  /\ Looping("WODReader")
  /\ LET r == WODReader_body(data_lists, i, c, NextFile)
     IN  /\ r.st = "ok"
         /\ is_variable_too_big(r.dl)
         /\ TRUE \in create_dataset(r.dl)
         /\ calls' = Append(calls, Call(r.dl, FALSE, TRUE))
  /\ data_lists' = initialize_variables.data_lists
  /\ i' = i + 1
  /\ file_counter' = file_counter + 1
  /\ consumed' = Append(consumed, c)
  /\ UNCHANGED <<impl, pc>>
  /\ UNCHANGED size_vars

\* a flush that gives the next unit the number of the one just written
Mut_W_FlushSameNumber(c) ==
  /\ Looping("WODReader")
  /\ LET r == WODReader_body(data_lists, i, c, NextFile)
     IN  /\ r.st = "ok"
         /\ is_variable_too_big(r.dl)
         /\ TRUE \in create_dataset(r.dl)
         /\ calls' = Append(calls, Call(r.dl, FALSE, TRUE))
  /\ data_lists' = initialize_variables.data_lists
  /\ i' = initialize_variables.i
  /\ consumed' = Append(consumed, c)
  /\ UNCHANGED <<impl, pc, file_counter>>
  /\ UNCHANGED size_vars

\* a flush that hands create_dataset the accumulator already reset
Mut_W_FlushEmpty(c) ==
  /\ Looping("WODReader")
  /\ LET r == WODReader_body(data_lists, i, c, NextFile)
     IN  /\ r.st = "ok"
         /\ is_variable_too_big(r.dl)
         /\ TRUE \in create_dataset(r.dl)
  /\ calls' = Append(calls, Call(initialize_variables.data_lists, FALSE, TRUE))
  /\ data_lists' = initialize_variables.data_lists
  /\ i' = initialize_variables.i
  /\ file_counter' = file_counter + 1
  /\ consumed' = Append(consumed, c)
  /\ UNCHANGED <<impl, pc>>
  /\ UNCHANGED size_vars

\* lines 129-222: the cast is appended, the accumulator is too big,
\* create_dataset returns
W_Flush(c) ==
  /\ Looping("WODReader")
  /\ LET r == WODReader_body(data_lists, i, c, NextFile)
     IN  /\ r.st = "ok"
         /\ is_variable_too_big(r.dl)
         /\ TRUE \in create_dataset(r.dl)
         /\ calls' = Append(calls, Call(r.dl, FALSE, TRUE))
  /\ data_lists' = initialize_variables.data_lists
  /\ i' = initialize_variables.i
  /\ file_counter' = file_counter + 1
  /\ consumed' = Append(consumed, c)
  /\ UNCHANGED <<impl, pc>>
  /\ UNCHANGED size_vars

\* a failed flush that starts a new accumulator and takes the unit number
Mut_W_FlushFails(c) ==
  /\ Looping("WODReader")
  /\ LET r == WODReader_body(data_lists, i, c, NextFile)
     IN  /\ r.st = "ok"
         /\ is_variable_too_big(r.dl)
         /\ FALSE \in create_dataset(r.dl)
         /\ calls' = Append(calls, Call(r.dl, FALSE, FALSE))
  /\ data_lists' = initialize_variables.data_lists
  /\ i' = initialize_variables.i
  /\ file_counter' = file_counter + 1
  /\ consumed' = Append(consumed, c)
  /\ pc' = "write_failed"
  /\ UNCHANGED impl
  /\ UNCHANGED size_vars

\* lines 129-220: the same, create_dataset raises
W_FlushFails(c) ==
  /\ Looping("WODReader")
  /\ LET r == WODReader_body(data_lists, i, c, NextFile)
     IN  /\ r.st = "ok"
         /\ is_variable_too_big(r.dl)
         /\ FALSE \in create_dataset(r.dl)
         /\ calls' = Append(calls, Call(r.dl, FALSE, FALSE))
         /\ data_lists' = r.dl
  /\ i' = i + 1
  /\ consumed' = Append(consumed, c)
  /\ pc' = "write_failed"
  /\ UNCHANGED <<impl, file_counter>>
  /\ UNCHANGED size_vars

\* a last create_dataset made only for a non-empty accumulator
Mut_W_Final ==
  /\ impl = "WODReader"
  /\ pc = "loop"
  /\ TRUE \in create_dataset(data_lists)
  /\ calls' = IF data_lists["lat"] = <<>> THEN calls
              ELSE Append(calls, Call(data_lists, TRUE, TRUE))
  /\ pc' = "done"
  /\ UNCHANGED <<impl, data_lists, i, file_counter, consumed>>
  /\ UNCHANGED size_vars

\* line 223: the stream is exhausted, create_dataset returns
W_Final ==
  /\ impl = "WODReader"
  /\ pc = "loop"
  /\ TRUE \in create_dataset(data_lists)
  /\ calls' = Append(calls, Call(data_lists, TRUE, TRUE))
  /\ pc' = "done"
  /\ UNCHANGED <<impl, data_lists, i, file_counter, consumed>>
  /\ UNCHANGED size_vars

\* line 223: create_dataset raises
W_FinalFails ==
  /\ impl = "WODReader"
  /\ pc = "loop"
  /\ FALSE \in create_dataset(data_lists)
  /\ calls' = Append(calls, Call(data_lists, TRUE, FALSE))
  /\ pc' = "write_failed"
  /\ UNCHANGED <<impl, data_lists, i, file_counter, consumed>>
  /\ UNCHANGED size_vars

(***************************************************************************)
(* functions/read.py: read_WOD opens every file, then read_raw_data runs.  *)
(***************************************************************************)
\* line 147: xr.open_dataset raises while the list of datasets is built
F_OpenFails ==
  /\ Looping("functions")
  /\ consumed = <<>>
  /\ pc' = "open_failed"
  /\ UNCHANGED <<impl, data_lists, i, file_counter, consumed, calls>>
  /\ UNCHANGED size_vars

\* lines 77 and 85: continue
F_Skip(c) ==
  /\ Looping("functions")
  /\ LET r == F_body(data_lists, i, c, NextFile)
     IN  /\ r.st = "skip"
         /\ data_lists' = r.dl
  /\ consumed' = Append(consumed, c)
  /\ UNCHANGED <<impl, pc, i, file_counter, calls>>
  /\ UNCHANGED size_vars

F_Raise(c) ==
  /\ Looping("functions")
  /\ LET r == F_body(data_lists, i, c, NextFile)
     IN  /\ r.st = "raise"
         /\ data_lists' = r.dl
  /\ consumed' = Append(consumed, c)
  /\ pc' = "cast_raised"
  /\ UNCHANGED <<impl, i, file_counter, calls>>
  /\ UNCHANGED size_vars

\* lines 66-102
F_Append(c) ==
  /\ Looping("functions")
  /\ LET r == F_body(data_lists, i, c, NextFile)
     IN  /\ r.st = "ok"
         /\ ~F_is_variable_too_big(r.dl)
         /\ data_lists' = r.dl
  /\ i' = i + 1
  /\ consumed' = Append(consumed, c)
  /\ UNCHANGED <<impl, pc, file_counter, calls>>
  /\ UNCHANGED size_vars

\* lines 66-105
F_Flush(c) ==
  /\ Looping("functions")
  /\ LET r == F_body(data_lists, i, c, NextFile)
     IN  /\ r.st = "ok"
         /\ F_is_variable_too_big(r.dl)
         /\ TRUE \in create_dataset(r.dl)
         /\ calls' = Append(calls, Call(r.dl, FALSE, TRUE))
  /\ data_lists' = initialize_variables.data_lists
  /\ i' = initialize_variables.i
  /\ file_counter' = file_counter + 1
  /\ consumed' = Append(consumed, c)
  /\ UNCHANGED <<impl, pc>>
  /\ UNCHANGED size_vars

\* lines 66-103: create_dataset raises
F_FlushFails(c) ==
  /\ Looping("functions")
  /\ LET r == F_body(data_lists, i, c, NextFile)
     IN  /\ r.st = "ok"
         /\ F_is_variable_too_big(r.dl)
         /\ FALSE \in create_dataset(r.dl)
         /\ calls' = Append(calls, Call(r.dl, FALSE, FALSE))
         /\ data_lists' = r.dl
  /\ i' = i + 1
  /\ consumed' = Append(consumed, c)
  /\ pc' = "write_failed"
  /\ UNCHANGED <<impl, file_counter>>
  /\ UNCHANGED size_vars

\* line 106
F_Final ==
  /\ impl = "functions"
  /\ pc = "loop"
  /\ TRUE \in create_dataset(data_lists)
  /\ calls' = Append(calls, Call(data_lists, TRUE, TRUE))
  /\ pc' = "done"
  /\ UNCHANGED <<impl, data_lists, i, file_counter, consumed>>
  /\ UNCHANGED size_vars

F_FinalFails ==
  /\ impl = "functions"
  /\ pc = "loop"
  /\ FALSE \in create_dataset(data_lists)
  /\ calls' = Append(calls, Call(data_lists, TRUE, FALSE))
  /\ pc' = "write_failed"
  /\ UNCHANGED <<impl, data_lists, i, file_counter, consumed>>
  /\ UNCHANGED size_vars

Next ==
  \/ W_OpenFails
  \/ \E c \in Casts : W_Skip(c)
  \/ \E c \in Casts : W_Raise(c)
  \/ \E c \in Casts : W_Append(c)
  \/ \E c \in Casts : W_Flush(c)
  \/ \E c \in Casts : W_FlushFails(c)
  \/ W_Final
  \/ W_FinalFails
  \/ F_OpenFails
  \/ \E c \in Casts : F_Skip(c)
  \/ \E c \in Casts : F_Raise(c)
  \/ \E c \in Casts : F_Append(c)
  \/ \E c \in Casts : F_Flush(c)
  \/ \E c \in Casts : F_FlushFails(c)
  \/ F_Final
  \/ F_FinalFails

Spec == Init /\ [][Next]_vars

(***************************************************************************)
(* WODReader.read_raw_data on a stream that does not end.  Every cast of   *)
(* the stream is one the loop body appends.  The histories are kept        *)
(* finite: consumed holds the casts read since the last reset, calls is    *)
(* not recorded.  The run is followed for MaxUnits flushes; MaxPending is  *)
(* above every profile count an accumulator under the threshold has.       *)
(***************************************************************************)
MaxUnits == 2
MaxPending == 3

\* the casts the loop body of WODReader.read_raw_data appends
StreamCasts ==
  {c \in Casts :
     WODReader_body(initialize_variables.data_lists, 0, c, 1).st = "ok"}

StreamInit ==
  /\ impl = "WODReader"
  /\ pc = "loop"
  /\ data_lists = initialize_variables.data_lists
  /\ i = initialize_variables.i
  /\ file_counter = 0
  /\ consumed = <<>>
  /\ calls = <<>>
  /\ total_sum = 0
  /\ too_big = FALSE

Streaming ==
  /\ impl = "WODReader"
  /\ pc = "loop"
  /\ file_counter < MaxUnits
  /\ i < MaxPending

\* lines 126-222, one iteration of the loop on a cast it appends: the
\* accumulator stays under the threshold, or create_dataset is called and
\* returns (reset, next unit) or raises.  r is the value the body returns.
Stream_Read(c) ==
  /\ Streaming
  /\ \E r \in {WODReader_body(data_lists, i, c, NextFile)} :
       /\ r.st = "ok"
       /\ IF ~is_variable_too_big(r.dl)
          THEN /\ data_lists' = r.dl
               /\ i' = i + 1
               /\ consumed' = Append(consumed, c)
               /\ UNCHANGED <<pc, file_counter>>
          ELSE \E ok \in create_dataset(r.dl) :
                 IF ok
                 THEN /\ data_lists' = initialize_variables.data_lists
                      /\ i' = initialize_variables.i
                      /\ file_counter' = file_counter + 1
                      /\ consumed' = <<>>
                      /\ UNCHANGED pc
                 ELSE /\ data_lists' = r.dl
                      /\ i' = i + 1
                      /\ consumed' = Append(consumed, c)
                      /\ pc' = "write_failed"
                      /\ UNCHANGED file_counter
  /\ UNCHANGED <<impl, calls>>
  /\ UNCHANGED size_vars

StreamNext == \E c \in StreamCasts : Stream_Read(c)

\* the loop is sequential code: while there is a cast, the next iteration
\* runs
StreamSpec == StreamInit /\ [][StreamNext]_vars /\ WF_vars(StreamNext)

(***************************************************************************)
(* is_variable_too_big run alone on a total_sum around the threshold.      *)
(* Here the sizes are those of CPython on a 64-bit build: sys.getsizeof of *)
(* a list is EmptyListBytes and SlotBytes for every allocated slot, so the *)
(* sums of the 22 columns are 22 * EmptyListBytes and a multiple of        *)
(* SlotBytes.  SizeMargin slots are taken on either side of the count at   *)
(* which the sum is 150 MB.                                                *)
(***************************************************************************)
SizeMargin == 60
SlotBytes == 8

SlotsAtThreshold ==
  (150 * (1024 * 1024) - Len(KeyOrder) * EmptyListBytes) \div SlotBytes

\* lines 47-49: the values total_sum can have next to the threshold
SizeInputs ==
  {Len(KeyOrder) * EmptyListBytes + SlotBytes * n :
     n \in (SlotsAtThreshold - SizeMargin)..(SlotsAtThreshold + SizeMargin)}

SizeInit ==
  /\ impl = "WODReader"
  /\ pc = "size_check"
  /\ data_lists = initialize_variables.data_lists
  /\ i = initialize_variables.i
  /\ file_counter = 0
  /\ consumed = <<>>
  /\ calls = <<>>
  /\ total_sum \in SizeInputs
  /\ too_big = FALSE

\* lines 50-55: the comparison and the value returned
Size_Check ==
  /\ pc = "size_check"
  /\ too_big' = SizeVerdict(total_sum)
  /\ pc' = "size_done"
  /\ UNCHANGED <<impl, data_lists, i, file_counter, consumed, calls, total_sum>>

SizeNext == Size_Check

SizeSpec == SizeInit /\ [][SizeNext]_vars

(***************************************************************************)
(* What the claims speak of.                                               *)
(***************************************************************************)
Last(seq) == seq[Len(seq)]

\* the profile count P and the observation count of an accumulator
ProfileCount(dl) == Len(dl["lat"])
ObsCount(dl) == Len(dl["parent_index"])

NonDecreasing(seq) == \A k \in 1..(Len(seq) - 1) : seq[k] <= seq[k + 1]

ParentIndexConsistent(dl) ==
  /\ \A k \in DOMAIN dl["parent_index"] :
       dl["parent_index"][k] \in 0..(ProfileCount(dl) - 1)
  /\ NonDecreasing(dl["parent_index"])

\* the step reads the cast c
Reads(c) == consumed' = Append(consumed, c)

\* the cast has a depth or a pressure series; its observation count
Carries(c) == "z" \in c.has \/ "Pressure" \in c.has
CastObs(c) == IF "z" \in c.has THEN Len(c.z) ELSE Len(c.ser["Pressure"])

\* C1: in WODReader.read_raw_data every accumulator handed to
\* create_dataset, and the accumulator between two casts, has every
\* parent_index value in [0, P - 1] and parent_index non-decreasing; a step
\* that appends a cast of N observations appends N copies of the profile
\* count as it was before the step.
C1_State ==
  impl = "WODReader" =>
    /\ \A k \in DOMAIN calls : ParentIndexConsistent(calls[k].data)
    /\ pc = "loop" => ParentIndexConsistent(data_lists)

C1_Step ==
  \A c \in Casts :
    (impl = "WODReader" /\ Reads(c) /\ pc' # "cast_raised" /\ Carries(c)) =>
      LET after == IF Len(calls') > Len(calls) THEN Last(calls').data ELSE data_lists'
      IN  after["parent_index"] =
            data_lists["parent_index"]
              \o [k \in 1..CastObs(c) |-> ProfileCount(data_lists)]

\* C1: parent_index stays within [0, P - 1] and non-decreasing in every
\* accumulator (C1_State), and every append adds N copies of the profile
\* count it found (C1_Step).
C1_ParentIndex == [](C1_State) /\ [][C1_Step]_vars

C1_Witness ==
  /\ impl = "WODReader"
  /\ calls # <<>>
  /\ Last(calls).data["parent_index"] = <<0, 1, 1>>

\* C2: in WODReader.read_raw_data, when every series of every cast read so
\* far has the length of the cast's depth series, every accumulator handed
\* to create_dataset has its 14 profile-level columns of one length and its
\* 8 observation-level columns of one length.
C2_LengthUniformity ==
  (impl = "WODReader" /\ \A k \in DOMAIN consumed : Uniform(consumed[k])) =>
    \A k \in DOMAIN calls : Conforming(calls[k].data)

C2_Witness ==
  /\ impl = "WODReader"
  /\ \A k \in DOMAIN consumed : Uniform(consumed[k])
  /\ calls # <<>>
  /\ ObsCount(Last(calls).data) = 3
  /\ Last(calls).data["temp_flag"] = <<51, NaN, NaN>>

\* C3: in read_raw_data of functions/read.py every accumulator handed to
\* create_dataset has its profile-level columns of one length P, its
\* observation-level columns of one length, and every parent_index value
\* below P.
C3_FunctionsUniformity ==
  impl = "functions" =>
    \A k \in DOMAIN calls :
      /\ Conforming(calls[k].data)
      /\ \A n \in DOMAIN calls[k].data["parent_index"] :
           calls[k].data["parent_index"][n] < ProfileCount(calls[k].data)

RECURSIVE Flatten(_)
Flatten(seqs) == IF seqs = <<>> THEN <<>> ELSE Head(seqs) \o Flatten(Tail(seqs))

\* a column as create_dataset received it, call after call
ColumnOverCalls(key) == Flatten([k \in DOMAIN calls |-> calls[k].data[key]])

\* the casts read so far that carry z or Pressure, in order
CarryingCasts == SelectSeq(consumed, Carries)

FinalCallMade == calls # <<>> /\ Last(calls).final

\* C4: once WODReader.read_raw_data has made its call after the loop, the
\* profile rows of all its create_dataset calls are as many as the casts
\* that carry z or Pressure, the observation rows as many as their
\* observations, and the depth and deepest_depth columns of the calls, put
\* end to end, are those casts' depth series and maxima in the order read:
\* every cast is in one unit, once.
C4_Conservation ==
  (impl = "WODReader" /\ FinalCallMade) =>
    /\ Len(ColumnOverCalls("lat")) = Len(CarryingCasts)
    /\ Len(ColumnOverCalls("parent_index"))
         = Len(Flatten([k \in DOMAIN CarryingCasts |->
                          NanList(CastObs(CarryingCasts[k]))]))
    /\ ColumnOverCalls("depth")
         = Flatten([k \in DOMAIN CarryingCasts |-> CarryingCasts[k].z])
    /\ ColumnOverCalls("deepest_depth")
         = [k \in DOMAIN CarryingCasts |->
              IF CarryingCasts[k].z = <<>> THEN NaN ELSE Max(CarryingCasts[k].z)]

C4_Witness ==
  /\ impl = "WODReader"
  /\ pc = "done"
  /\ Len(calls) = 2
  /\ ColumnOverCalls("depth") = <<1, 2, 3, 4, 0>>
  /\ ProfileCount(calls[1].data) = 1
  /\ ProfileCount(calls[2].data) = 1

\* C5: in both drivers a step that reads a cast with neither z nor
\* Pressure leaves data_lists, i, file_counter and the create_dataset calls
\* as they were, and the loop goes on.
C5_Step ==
  \A c \in Casts :
    (Reads(c) /\ ~Carries(c)) =>
      /\ UNCHANGED <<data_lists, i, file_counter, calls>>
      /\ pc' = "loop"

\* C5: every step of either driver is such a step (C5_Step).
C5_SkipFrame == [][C5_Step]_vars

C5_Witness ==
  /\ impl = "functions"
  /\ pc = "loop"
  /\ Len(consumed) = 2
  /\ ~Carries(consumed[2])
  /\ ProfileCount(data_lists) = 1

\* C6: in WODReader.read_raw_data a step whose append makes
\* is_variable_too_big true makes exactly one create_dataset call, with the
\* accumulator of the i casts appended since the last reset and the one
\* just appended; when the call returns, every column is empty and i is 0
\* before the next cast is read.  A step whose append leaves the
\* accumulator under the threshold makes no call.  So parent_index of
\* every accumulator starts at 0 and i is the profile count.
C6_Step ==
  \A c \in Casts :
    LET r == WODReader_body(data_lists, i, c, NextFile)
    IN  (impl = "WODReader" /\ Reads(c) /\ r.st = "ok") =>
          IF is_variable_too_big(r.dl)
          THEN /\ Len(calls') = Len(calls) + 1
               /\ Last(calls').data = r.dl
               /\ ProfileCount(Last(calls').data) = i + 1
               /\ ~Last(calls').final
               /\ \/ /\ Last(calls').ok
                     /\ pc' = "loop"
                     /\ i' = 0
                     /\ \A key \in Keys : data_lists'[key] = <<>>
                  \/ /\ ~Last(calls').ok
                     /\ pc' = "write_failed"
          ELSE /\ calls' = calls
               /\ pc' = "loop"

C6_State ==
  impl = "WODReader" =>
    /\ pc = "loop" =>
         /\ i = ProfileCount(data_lists)
         /\ data_lists["parent_index"] # <<>> => data_lists["parent_index"][1] = 0
    /\ \A k \in DOMAIN calls :
         calls[k].data["parent_index"] # <<>> =>
           calls[k].data["parent_index"][1] = 0

\* C6: every step flushes once and resets data_lists and i together when
\* the threshold is reached (C6_Step), and no accumulator starts with an
\* index of the unit before it (C6_State).
C6_FlushAndReset == [](C6_State) /\ [][C6_Step]_vars

C6_Witness ==
  /\ impl = "WODReader"
  /\ pc = "loop"
  /\ Len(calls) = 1
  /\ calls[1].data["parent_index"] = <<0, 0, 0, 0>>
  /\ data_lists["parent_index"] = <<0>>
  /\ i = 1

\* C7: when WODReader.read_raw_data has returned, the last create_dataset
\* call is the only one made after the loop, it received the accumulator
\* and file_counter as the loop left them, every call before it was a
\* threshold flush, and the calls are file_counter + 1 in number, all
\* returned; with no threshold flush there is one call, numbered 0, whose
\* accumulator holds every accepted cast.
C7_FinalFlush ==
  (impl = "WODReader" /\ pc = "done") =>
    /\ calls # <<>>
    /\ Last(calls).final
    /\ Last(calls).data = data_lists
    /\ Last(calls).file_counter = file_counter
    /\ \A k \in 1..(Len(calls) - 1) : ~calls[k].final
    /\ Len(calls) = file_counter + 1
    /\ \A k \in DOMAIN calls : calls[k].ok
    /\ file_counter = 0 =>
         /\ Len(calls) = 1
         /\ calls[1].file_counter = 0
         /\ ProfileCount(calls[1].data) = Len(CarryingCasts)

C7_Witness ==
  /\ impl = "WODReader"
  /\ pc = "done"
  /\ Len(calls) = 1
  /\ ProfileCount(calls[1].data) = 2

\* a run that ends with an empty unit after two threshold flushes
C7_WitnessEmptyFinal ==
  /\ impl = "WODReader"
  /\ pc = "done"
  /\ Len(calls) = 3
  /\ ProfileCount(calls[3].data) = 0

\* C8: when WODReader.read_raw_data is left by an exception raised while a
\* cast is opened or read, with at least one cast appended to the
\* accumulator, a create_dataset call after the loop has been made with the
\* appended casts.
C8_FlushOnFailure ==
  (impl = "WODReader" /\ pc \in {"open_failed", "cast_raised"} /\ i >= 1) =>
    /\ FinalCallMade
    /\ ProfileCount(Last(calls).data) = i

\* C9: in WODReader.read_raw_data no cast makes an exception leave the
\* loop body: a cast is skipped or appended whole, whatever fields it
\* carries and whatever its depths are.
C9_NoCastAborts == impl = "WODReader" => pc # "cast_raised"

Suffix(seq, n) == SubSeq(seq, Len(seq) - n + 1, Len(seq))

\* C10: in WODReader.read_raw_data a cast with Pressure and without z does
\* not end the run; once it is read, the accumulator it went to (the one
\* handed to create_dataset when the append caused a flush) ends with one
\* more profile row, the cast's N pressure values, N nan depths and N
\* parent_index entries naming that row, N being the length of Pressure.
C10_PressureWithoutDepth ==
  (/\ impl = "WODReader"
   /\ consumed # <<>>
   /\ "Pressure" \in Last(consumed).has
   /\ "z" \notin Last(consumed).has) =>
    /\ pc # "cast_raised"
    /\ pc = "loop" =>
         LET c == Last(consumed)
             N == Len(c.ser["Pressure"])
             held == IF data_lists["lat"] = <<>> THEN Last(calls).data ELSE data_lists
         IN  /\ ProfileCount(held) >= 1
             /\ Len(held["press"]) >= N
             /\ Suffix(held["press"], N) = c.ser["Pressure"]
             /\ Suffix(held["depth"], N) = NanList(N)
             /\ Suffix(held["parent_index"], N)
                  = [k \in 1..N |-> ProfileCount(held) - 1]
             /\ i = ProfileCount(data_lists)

\* the accumulator a step leaves the cast it read in: the one handed to
\* create_dataset when the step made a call, the live one otherwise
After == IF Len(calls') > Len(calls) THEN Last(calls').data ELSE data_lists'

\* the step makes a threshold-triggered create_dataset call
FlushCall == Len(calls') = Len(calls) + 1 /\ ~Last(calls').final

\* C11: a step of WODReader.read_raw_data whose threshold-triggered
\* create_dataset call raises leaves data_lists the accumulator handed to
\* the call, i the count of its profiles and file_counter the number handed
\* to the call, unchanged.
C11_FailureStep ==
  (impl = "WODReader" /\ FlushCall /\ ~Last(calls').ok) =>
    /\ data_lists' = Last(calls').data
    /\ i' = i + 1
    /\ i' = ProfileCount(data_lists')
    /\ file_counter' = file_counter
    /\ file_counter' = Last(calls').file_counter

\* C11: a step that empties the accumulator or changes file_counter has made
\* a create_dataset call that returned.
C11_ResetStep ==
  (impl = "WODReader" /\ (file_counter' # file_counter \/ i' < i
                          \/ Len(data_lists'["lat"]) < Len(data_lists["lat"]))) =>
    /\ FlushCall
    /\ Last(calls').ok

\* C11: in WODReader.read_raw_data the reset of data_lists and i and the
\* increment of file_counter come only after create_dataset has returned
\* (C11_ResetStep); when it raises in a threshold-triggered flush,
\* data_lists, i and file_counter keep the values the flush began with
\* (C11_FailureStep).
C11_ResetAfterWrite == [][C11_FailureStep /\ C11_ResetStep]_vars

C11_Witness ==
  /\ impl = "WODReader"
  /\ pc = "write_failed"
  /\ calls # <<>>
  /\ ~Last(calls).final
  /\ ~Last(calls).ok
  /\ data_lists["depth"] = <<1, 1, 2>>
  /\ i = 2
  /\ file_counter = 0

\* C12: in WODReader.read_raw_data the j-th create_dataset call of a run
\* receives file_counter = j - 1, no two calls receive the same number, and
\* file_counter never decreases.
C12_State ==
  impl = "WODReader" =>
    /\ \A j \in DOMAIN calls : calls[j].file_counter = j - 1
    /\ \A j, k \in DOMAIN calls :
         j # k => calls[j].file_counter # calls[k].file_counter

C12_Step == impl = "WODReader" => file_counter' >= file_counter

C12_SequentialUnits == [](C12_State) /\ [][C12_Step]_vars

C12_Witness ==
  /\ impl = "WODReader"
  /\ pc = "loop"
  /\ Len(calls) = 2
  /\ calls[1].file_counter = 0
  /\ calls[2].file_counter = 1
  /\ file_counter = 2

\* the step appends the cast c: it reads it, and neither skips it nor is
\* left by an exception
Accepts(c) == Reads(c) /\ Carries(c) /\ pc' # "cast_raised"

\* n missing sentinels
Sentinels(n) == [k \in 1..n |-> NaN]

\* the step appends `values` to the column `key`
Adds(key, values) == After[key] = data_lists[key] \o values

\* C13: a step of WODReader.read_raw_data that appends a cast of N
\* observations without Salinity appends N sentinels to psal and N to
\* psal_flag; without Temperature, N sentinels to temp and N to temp_flag;
\* with the measurement series (of length N) and without its flag series,
\* the series to the measurement column and N sentinels to the flag column.
C13_Step ==
  \A c \in Casts :
    (impl = "WODReader" /\ Accepts(c)) =>
      LET N == CastObs(c)
      IN  /\ "Salinity" \notin c.has =>
                Adds("psal", Sentinels(N)) /\ Adds("psal_flag", Sentinels(N))
          /\ "Temperature" \notin c.has =>
                Adds("temp", Sentinels(N)) /\ Adds("temp_flag", Sentinels(N))
          /\ ("Salinity" \in c.has /\ "Salinity_WODflag" \notin c.has /\ Uniform(c)) =>
                Adds("psal", c.ser["Salinity"]) /\ Adds("psal_flag", Sentinels(N))
          /\ ("Temperature" \in c.has /\ "Temperature_WODflag" \notin c.has
                /\ Uniform(c)) =>
                Adds("temp", c.ser["Temperature"]) /\ Adds("temp_flag", Sentinels(N))

\* C13: every step of WODReader.read_raw_data fills an absent Salinity or
\* Temperature series and an absent flag series with N sentinels (C13_Step).
C13_SentinelFill == [][C13_Step]_vars

C13_Witness ==
  /\ impl = "WODReader"
  /\ Len(consumed) = 2
  /\ "Salinity" \notin consumed[1].has
  /\ "Temperature_WODflag" \notin consumed[2].has
  /\ Len(calls) = 1
  /\ calls[1].data["psal"] = <<NaN, NaN, 31, 32>>
  /\ calls[1].data["psal_flag"] = <<NaN, NaN, 61, 62>>
  /\ calls[1].data["temp"] = <<21, 22, 21, 22>>
  /\ calls[1].data["temp_flag"] = <<51, 52, NaN, NaN>>

\* the least and the greatest member of a non-empty set of numbers
Least(S) == CHOOSE x \in S : \A y \in S : x <= y
Greatest(S) == CHOOSE x \in S : \A y \in S : x >= y

\* C14: a step of WODReader.read_raw_data that appends a cast appends one
\* value to shallowest_depth and one to deepest_depth: the least depth
\* different from 0 when the depth series has more than one entry, the
\* least depth otherwise; and the greatest depth.
C14_Step ==
  \A c \in Casts :
    (impl = "WODReader" /\ Accepts(c)) =>
      LET all == {c.z[k] : k \in DOMAIN c.z}
          shallowest == IF Len(c.z) > 1 THEN Least(all \ {0}) ELSE Least(all)
      IN  /\ Adds("shallowest_depth", <<shallowest>>)
          /\ Adds("deepest_depth", <<Greatest(all)>>)

\* C14: every appended cast gives shallowest_depth and deepest_depth one
\* value each, computed as C14_Step says.
C14_DepthRange == [][C14_Step]_vars

C14_Witness ==
  /\ impl = "WODReader"
  /\ Len(consumed) = 2
  /\ consumed[1].z = <<0>>
  /\ consumed[2].z = <<0, 1>>
  /\ Len(calls) = 1
  /\ calls[1].data["shallowest_depth"] = <<0, 1>>
  /\ calls[1].data["deepest_depth"] = <<0, 1>>

\* the date of the cast cannot be obtained: a field is absent, get_date
\* raises, or datetime() refuses the fields
DateUnavailable(c) ==
  \/ "date" \notin c.has
  \/ "GMT_time" \notin c.has
  \/ get_date(c).raised
  \/ ~DatetimeValid(get_date(c))

\* the cast c with a date that decodes
WithDate(c) ==
  [c EXCEPT !.has = @ \cup {"date", "GMT_time"}, !.date = GoodDate, !.gmt = NoonHalf]

\* C15: when WODReader.read_raw_data reads a cast whose date cannot be
\* obtained, and the same cast with a date that decodes would be appended,
\* the cast is appended: the profile count grows by one, the observation
\* columns by the cast's N observations, and timestamp and datestr by one
\* missing sentinel each.
C15_Step ==
  \A c \in Casts :
    (/\ impl = "WODReader"
     /\ Reads(c)
     /\ DateUnavailable(c)
     /\ WODReader_body(data_lists, i, WithDate(c), NextFile).st = "ok") =>
      /\ pc' # "cast_raised"
      /\ ProfileCount(After) = ProfileCount(data_lists) + 1
      /\ ObsCount(After) = ObsCount(data_lists) + CastObs(c)
      /\ Adds("depth", c.z)
      /\ Adds("timestamp", <<NaN>>)
      /\ Adds("datestr", <<NaNStr>>)

\* C15: every step that reads a cast without an obtainable date keeps the
\* cast and gives it the missing sentinel in timestamp and datestr.
C15_DateSentinel == [][C15_Step]_vars

C15_Witness ==
  /\ impl = "WODReader"
  /\ pc = "loop"
  /\ Len(consumed) = 2
  /\ "date" \notin consumed[1].has
  /\ consumed[2].date = BadDate
  /\ Len(calls) = 0
  /\ data_lists["timestamp"] = <<NaN, NaN>>
  /\ data_lists["datestr"] = <<NaNStr, NaNStr>>
  /\ data_lists["depth"] = <<1, 1>>

\* C16: between two casts the accumulator is under the threshold.
C16_State == pc = "loop" => ~is_variable_too_big(data_lists)

\* C16: a step that does not reset the accumulator does not lower the
\* estimate, and raises it when it appends a cast.
C16_Step ==
  file_counter' = file_counter =>
    /\ TotalSum(data_lists') >= TotalSum(data_lists)
    /\ i' > i => TotalSum(data_lists') > TotalSum(data_lists)

\* C16: on a stream of appended casts that does not end, from every point
\* of the loop WODReader.read_raw_data comes to a threshold-triggered
\* create_dataset call, which returns and starts the next unit or raises,
\* for each of the MaxUnits units the run is followed for; the accumulator
\* between two casts is under the threshold (C16_State) and the estimate
\* does not decrease between two resets (C16_Step).
C16_EventuallyFlushes ==
  /\ [](C16_State)
  /\ [][C16_Step]_vars
  /\ \A k \in 0..(MaxUnits - 1) :
       (pc = "loop" /\ file_counter = k)
         ~> (file_counter = k + 1 \/ pc = "write_failed")

C16_Witness ==
  /\ impl = "WODReader"
  /\ pc = "loop"
  /\ file_counter = 2
  /\ i = 0
  /\ TotalSum(data_lists) = 22 * EmptyListBytes

\* the names of the files whose casts carry z or Pressure, in the order
\* read: the k-th file of the listing is named k
CarryingFiles ==
  SelectSeq([k \in DOMAIN consumed |-> k], LAMBDA k : Carries(consumed[k]))

\* C17: once WODReader.read_raw_data has returned, the orig_filename
\* columns of its create_dataset calls, put end to end, are the names of
\* the files of the casts that produced the rows, in the order read,
\* whether or not a cast has a field orig_filename.
C17_OrigFilename ==
  (impl = "WODReader" /\ pc = "done") =>
    ColumnOverCalls("orig_filename") = CarryingFiles

\* C17 in read_raw_data of functions/read.py, whose appends are all whole
\* when no cast lacks its date
C17_FunctionsOrigFilename ==
  (/\ impl = "functions"
   /\ pc = "done"
   /\ \A k \in DOMAIN consumed : "date" \in consumed[k].has) =>
    ColumnOverCalls("orig_filename") = CarryingFiles

\* the profile rows of the threshold-triggered create_dataset calls
FlushedRows ==
  Len(Flatten([k \in DOMAIN calls |->
                 IF calls[k].final THEN <<>> ELSE calls[k].data["lat"]]))

\* C18: in WODReader.read_raw_data every accumulator handed to
\* create_dataset by a threshold-triggered flush has at least one profile
\* row, and an empty accumulator is under the threshold; once
\* read_raw_data has returned, the accumulator of the call after the loop
\* is the one the loop left, and it is empty exactly when no cast was
\* appended or the row of the last appended cast went to a
\* threshold-triggered unit.
C18_State ==
  impl = "WODReader" =>
    /\ ~is_variable_too_big(initialize_variables.data_lists)
    /\ \A k \in DOMAIN calls :
         ~calls[k].final => ProfileCount(calls[k].data) >= 1
    /\ pc = "done" =>
         /\ Last(calls).data = data_lists
         /\ ProfileCount(Last(calls).data) = 0 <=>
              \/ Len(CarryingCasts) = 0
              \/ FlushedRows = Len(CarryingCasts)

\* C18: a step makes a threshold-triggered create_dataset call only when it
\* appends a cast, and the accumulator handed over holds that cast's row;
\* a step that appends a cast and goes on leaves the accumulator empty
\* exactly when it flushed; a step that appends no cast and goes on or
\* returns leaves the accumulator as it was.
C18_Step ==
  impl = "WODReader" =>
    /\ FlushCall =>
         /\ \E c \in Casts : Accepts(c)
         /\ ProfileCount(Last(calls').data) = ProfileCount(data_lists) + 1
    /\ \A c \in Casts :
         (Accepts(c) /\ pc' = "loop") =>
           (ProfileCount(data_lists') = 0 <=> FlushCall)
    /\ (pc' \in {"loop", "done"} /\ ~\E c \in Casts : Accepts(c)) =>
         data_lists' = data_lists

\* C18: no threshold-triggered unit is empty (C18_State, C18_Step); only
\* the unit written after the loop can be.
C18_NoEmptyFlush == [](C18_State) /\ [][C18_Step]_vars

C18_Witness ==
  /\ impl = "WODReader"
  /\ pc = "done"
  /\ Len(calls) = 2
  /\ ~calls[1].final
  /\ ProfileCount(calls[1].data) = 2
  /\ calls[2].final
  /\ ProfileCount(calls[2].data) = 0

\* C19: WODReader.is_variable_too_big returns True exactly when the summed
\* size of the columns exceeds 150 * 1024 * 1024 bytes, and False when the
\* sum is exactly that.
C19_StrictThreshold ==
  pc = "size_done" => (too_big <=> total_sum > 150 * 1024 * 1024)

\* is_variable_too_big has returned True for a sum of exactly 150 MB
C19_Witness ==
  /\ pc = "size_done"
  /\ total_sum = 150 * 1024 * 1024
  /\ too_big

\* what is_variable_too_big does: True exactly from 150 MB on
C19_FromThreshold ==
  pc = "size_done" => (too_big <=> total_sum >= 150 * 1024 * 1024)

====
